---- MODULE Spec2Model ----
(***************************************************************************)
(* A model of bullhorn_data.py: the paginated topic listing, the raw       *)
(* content fetch, the line-scoped regular-expression extraction, the two   *)
(* aggregations and the four CSV exports of main().                        *)
(*                                                                         *)
(* Text is a sequence of lexemes.  A lexeme is one character ("[", "]",    *)
(* "(", ")", " ", "LF", "CR") or one run of characters that the pattern    *)
(* of extract_user_and_link treats as a unit: "m@" is the literal          *)
(* https://matrix.to/#/@ ("M@" in capitals), "h:" another URL prefix,      *)
(* "said", "Shared", "contributed" keywords as written in the text, and    *)
(* "Bob", "bob", "Al", "x" ordinary words.                                 *)
(***************************************************************************)
EXTENDS Integers, Sequences, FiniteSets, TLC

VARIABLES
    pc,                 \* position of the run
    page,               \* fetch_all_bullhorn_topics: page
    requested,          \* the pages requested so far, in request order
    post_ids,           \* fetch_all_bullhorn_topics: post_ids
    views_per_edition,  \* fetch_all_bullhorn_topics: views_per_edition
    served,             \* the page bodies the server answered with (history)
    idx,                \* main: position of the loop over post_ids
    fetched,            \* the raw-content requests made so far (post ids)
    filtered_data,      \* main: filtered_data
    user_count_data,    \* main: user_count_data
    contributions_data, \* main: contributions_data
    files,              \* the file system: filename -> content
    attempted,          \* the exports attempted so far, in order
    failed,             \* the exports whose write raised IOError
    markdown_text,      \* extract_user_and_link: markdown_text
    matches             \* extract_user_and_link: matches

vars == <<pc, page, requested, post_ids, views_per_edition, served, idx, fetched,
          filtered_data, user_count_data, contributions_data, files, attempted,
          failed, markdown_text, matches>>

----------------------------------------------------------------------------
(* Bounds of the model *)

MaxPages == 2
MaxFrags == 4
MaxRecords == 3

----------------------------------------------------------------------------
(* Strings *)

Whitespace == {" ", "LF", "CR"}

RECURSIVE LStrip(_)
LStrip(s) == IF s # <<>> /\ Head(s) \in Whitespace THEN LStrip(Tail(s)) ELSE s

RECURSIVE RStrip(_)
RStrip(s) ==
    IF s # <<>> /\ s[Len(s)] \in Whitespace THEN RStrip(SubSeq(s, 1, Len(s) - 1)) ELSE s

\* str.strip()
StripLR(s) == RStrip(LStrip(s))

\* re.IGNORECASE: the case-folded form of a lexeme
Lower(c) ==
    CASE c = "Shared" -> "shared"
      [] c = "M@" -> "m@"
      [] OTHER -> c

IsBreak(c) == c \in {"LF", "CR"}

RECURSIVE Concat(_)
Concat(ss) == IF ss = <<>> THEN <<>> ELSE Head(ss) \o Concat(Tail(ss))

Min(S) == CHOOSE x \in S : \A y \in S : x <= y

\* the first position >= from of s whose lexeme is in C, or 0
FirstIn(s, from, C) ==
    LET P == {i \in from..Len(s) : s[i] \in C}
    IN  IF P = {} THEN 0 ELSE Min(P)

\* str.splitlines(): CR LF is one break, and a final break opens no line
RECURSIVE splitlines(_)
splitlines(t) ==
    IF t = <<>> THEN <<>>
    ELSE LET b == FirstIn(t, 1, {"LF", "CR"})
         IN  IF b = 0 THEN <<t>>
             ELSE LET skip == IF t[b] = "CR" /\ b < Len(t) /\ t[b + 1] = "LF" THEN 2 ELSE 1
                  IN  <<SubSeq(t, 1, b - 1)>> \o splitlines(SubSeq(t, b + skip, Len(t)))

----------------------------------------------------------------------------
(* extract_user_and_link *)

keywords == {"shared", "said", "contributed"}

NoMatch == [found |-> FALSE]

\* the position of the ")" that closes a link whose "]" is at e, or 0:
\* \]\((https://matrix\.to/#/@[^)]+)\)
LinkClose(line, e) ==
    IF /\ e + 3 <= Len(line)
       /\ line[e] = "]"
       /\ line[e + 1] = "("
       /\ Lower(line[e + 2]) = "m@"
    THEN LET c == FirstIn(line, e + 3, {")"})
         IN  IF c > e + 3 THEN c ELSE 0
    ELSE 0

\* a variant of KeywordAfter that accepts a keyword anywhere on the line
KeywordAfter_Anywhere(line, c) == \E m \in 1..Len(line) : Lower(line[m]) \in keywords

\* .*(shared|said|contributed) after position c
KeywordAfter(line, c) == \E m \in (c + 1)..Len(line) : Lower(line[m]) \in keywords

\* the tail of the pattern, from the "]" at e
TailMatch(line, e) ==
    LET c == LinkClose(line, e) IN c # 0 /\ KeywordAfter(line, c)

\* the pattern anchored at s: \[ then the lazy (.*?) up to the first "]" that works
MatchFrom(line, s) ==
    IF line[s] # "[" THEN NoMatch
    ELSE LET E == {e \in (s + 1)..Len(line) : TailMatch(line, e)}
         IN  IF E = {} THEN NoMatch
             ELSE LET e == Min(E)
                  IN  [found |-> TRUE,
                       user |-> SubSeq(line, s + 1, e - 1),
                       link |-> SubSeq(line, e + 2, LinkClose(line, e) - 1)]

\* re.search(pattern, line, re.IGNORECASE): the leftmost start that matches
re_search(line) ==
    LET S == {s \in 1..Len(line) : MatchFrom(line, s).found}
    IN  IF S = {} THEN NoMatch ELSE MatchFrom(line, Min(S))

RECURSIVE MatchLines(_, _)
MatchLines(post_id, lines) ==
    IF lines = <<>> THEN <<>>
    ELSE LET match == re_search(Head(lines))
         IN  (IF match.found
              THEN <<[post_id |-> post_id, user |-> match.user, matrix_link |-> match.link]>>
              ELSE <<>>) \o MatchLines(post_id, Tail(lines))

extract_user_and_link(post_id, text) == MatchLines(post_id, splitlines(text))

----------------------------------------------------------------------------
(* dict: an insertion-ordered sequence of <<key, value>> pairs *)

DictKeys(d) == {d[i][1] : i \in 1..Len(d)}

DictGet(d, k, default) ==
    IF k \in DictKeys(d) THEN d[CHOOSE i \in 1..Len(d) : d[i][1] = k][2] ELSE default

DictPut(d, k, v) ==
    IF k \in DictKeys(d)
    THEN [d EXCEPT ![CHOOSE i \in 1..Len(d) : d[i][1] = k] = <<k, v>>]
    ELSE Append(d, <<k, v>>)

----------------------------------------------------------------------------
(* count_users_per_post, count_contributions_per_user and the rows main builds *)

\* a variant of AddUsers that trims the name, as count_contributions_per_user does
RECURSIVE AddUsers_Trimmed(_, _)
AddUsers_Trimmed(user_map, rows) ==
    IF rows = <<>> THEN user_map
    ELSE LET row == Head(rows)
         IN  AddUsers_Trimmed(DictPut(user_map, row.post_id,
                                      DictGet(user_map, row.post_id, {})
                                          \cup {StripLR(row.user)}),
                              Tail(rows))

\* user_map[post_id].add(user) over the rows, user_map a defaultdict(set)
RECURSIVE AddUsers(_, _)
AddUsers(user_map, rows) ==
    IF rows = <<>> THEN user_map
    ELSE LET row == Head(rows)
         IN  AddUsers(DictPut(user_map, row.post_id,
                              DictGet(user_map, row.post_id, {}) \cup {row.user}),
                      Tail(rows))

count_users_per_post(data) == AddUsers(<<>>, data)

\* a variant of AddContributions that counts a name once per run of equal records
RECURSIVE AddContributions_SetOnce(_, _)
AddContributions_SetOnce(user_contributions, rows) ==
    IF rows = <<>> THEN user_contributions
    ELSE LET user == StripLR(Head(rows).user)
         IN  AddContributions_SetOnce(DictPut(user_contributions, user, 1), Tail(rows))

\* user_contributions[row["user"].strip()] += 1 over the rows, a defaultdict(int)
RECURSIVE AddContributions(_, _)
AddContributions(user_contributions, rows) ==
    IF rows = <<>> THEN user_contributions
    ELSE LET user == StripLR(Head(rows).user)
         IN  AddContributions(DictPut(user_contributions, user,
                                      DictGet(user_contributions, user, 0) + 1),
                              Tail(rows))

count_contributions_per_user(data) == AddContributions(<<>>, data)

\* a variant of sorted_desc that puts an item before the items of equal count
RECURSIVE sorted_desc_Unstable(_)
sorted_desc_Unstable(items) ==
    IF items = <<>> THEN <<>>
    ELSE LET n == Len(items)
             x == items[n]
             rest == sorted_desc_Unstable(SubSeq(items, 1, n - 1))
             p == Cardinality({i \in 1..Len(rest) : rest[i][2] > x[2]})
         IN  SubSeq(rest, 1, p) \o <<x>> \o SubSeq(rest, p + 1, Len(rest))

\* sorted(items, key=lambda x: x[1], reverse=True): stable, equal counts keep their order
RECURSIVE sorted_desc(_)
sorted_desc(items) ==
    IF items = <<>> THEN <<>>
    ELSE LET n == Len(items)
             x == items[n]
             rest == sorted_desc(SubSeq(items, 1, n - 1))
             p == Cardinality({i \in 1..Len(rest) : rest[i][2] >= x[2]})
         IN  SubSeq(rest, 1, p) \o <<x>> \o SubSeq(rest, p + 1, Len(rest))

\* {entry["id"]: entry["title"] for entry in views_per_edition}
RECURSIVE TitlesFrom(_, _)
TitlesFrom(d, entries) ==
    IF entries = <<>> THEN d
    ELSE TitlesFrom(DictPut(d, Head(entries).id, Head(entries).title), Tail(entries))

id_to_title(entries) == TitlesFrom(<<>>, entries)

\* a variant of TitleOf that takes post_id for a position in the listing
TitleOf_Positional(titles, post_id) ==
    IF post_id \in 1..Len(titles) THEN titles[post_id][2] ELSE <<>>

\* id_to_title.get(post_id, "")
TitleOf(titles, post_id) == DictGet(titles, post_id, <<>>)

enriched_data(data, titles) ==
    [i \in 1..Len(data) |->
        [post_id |-> data[i].post_id,
         title |-> TitleOf(titles, data[i].post_id),
         user |-> data[i].user,
         matrix_link |-> data[i].matrix_link]]

UserCountRows(user_map, titles) ==
    [i \in 1..Len(user_map) |->
        [id |-> user_map[i][1],
         title |-> TitleOf(titles, user_map[i][1]),
         number_of_users |-> Cardinality(user_map[i][2])]]

ContributionRows(user_contributions) ==
    LET items == sorted_desc(user_contributions)
    IN  [i \in 1..Len(items) |-> [user |-> items[i][1], contributions |-> items[i][2]]]

----------------------------------------------------------------------------
(* save_to_csv *)

ViewsFile == "views_per_edition.csv"
LinesFile == "bullhorn_filtered_lines.csv"
CountsFile == "user_count_per_post.csv"
TotalsFile == "total_contributions_per_user.csv"
FileNames == {ViewsFile, LinesFile, CountsFile, TotalsFile}

ViewsFields == <<"id", "title", "views", "like_count">>
LinesFields == <<"post_id", "title", "user", "matrix_link">>
CountsFields == <<"id", "title", "number_of_users">>
TotalsFields == <<"user", "contributions">>

\* what a file holds before the run
OldContent == <<<<"old">>>>

\* csv.DictWriter.writerow: the entry's fields in the order of fieldnames
CsvRow(entry, fieldnames) == [i \in 1..Len(fieldnames) |-> entry[fieldnames[i]]]

\* the header row, then one row per entry
CsvContent(data, fieldnames) ==
    <<fieldnames>> \o [i \in 1..Len(data) |-> CsvRow(data[i], fieldnames)]

\* The outcomes of one save_to_csv call: it returns normally with everything
\* written; open() raises IOError and the file is untouched; or open() has
\* truncated the file and IOError is raised after k lines reached it (k = 0:
\* nothing yet, k = all: raised on close).  IOError is caught in every case.
SaveOutcomes(old, data, fieldnames) ==
    LET full == CsvContent(data, fieldnames)
    IN  {[ok |-> TRUE, content |-> full], [ok |-> FALSE, content |-> old]}
        \cup {[ok |-> FALSE, content |-> SubSeq(full, 1, k)] : k \in 0..Len(full)}

\* a variant of save_to_csv without the except clause: an IOError ends the run
save_to_csv_Uncaught(filename, data, fieldnames, ret) ==
    /\ attempted' = Append(attempted, filename)
    /\ \E out \in SaveOutcomes(files[filename], data, fieldnames) :
          /\ files' = [files EXCEPT ![filename] = out.content]
          /\ failed' = IF out.ok THEN failed ELSE failed \cup {filename}
          /\ pc' = IF out.ok THEN ret ELSE "crashed"

\* ret is where main continues: the except clause makes the call return normally
\* whether or not the write failed
save_to_csv(filename, data, fieldnames, ret) ==
    /\ attempted' = Append(attempted, filename)
    /\ \E out \in SaveOutcomes(files[filename], data, fieldnames) :
          /\ files' = [files EXCEPT ![filename] = out.content]
          /\ failed' = IF out.ok THEN failed ELSE failed \cup {filename}
          /\ pc' = ret

----------------------------------------------------------------------------
(* The forum: what the two endpoints may answer *)

\* topic objects of topic_list.topics; id 0 stands for an id that is absent, null or 0
TopicA == [id |-> 1, title |-> <<" ", "Ed1">>, views |-> 10, like_count |-> 2]
TopicB == [id |-> 2, title |-> <<"Ed2">>, views |-> 5, like_count |-> 0]
TopicNoId == [id |-> 0, title |-> <<"Ed0">>, views |-> 1, like_count |-> 0]
TopicA2 == [id |-> 1, title |-> <<"Ed1b">>, views |-> 11, like_count |-> 2]

TopicPool == {TopicA, TopicB, TopicNoId, TopicA2}

\* the non-empty topics arrays of the listing alone: up to two topics in any order
ListPages == {<<a>> : a \in TopicPool} \cup {<<a, b>> : a, b \in TopicPool}

\* the non-empty topics arrays of the whole pipeline
MainPages == {<<TopicB, TopicA>>, <<TopicNoId, TopicA2>>}

\* requests.get + raise_for_status + response.json() for a page: "error" is a
\* requests.RequestException (network error, timeout or non-success status),
\* "malformed" a body that is not the JSON object expected, "ok" a parsed body
\* with its topics array
PageResponses(Pages, p) ==
    {[kind |-> "error"], [kind |-> "malformed"], [kind |-> "ok", topics |-> <<>>]}
    \cup (IF p < MaxPages THEN {[kind |-> "ok", topics |-> t] : t \in Pages} ELSE {})

\* raw bodies of posts
TextTwo ==
    <<"[", "Bob", "]", "(", "m@", "x", ")", " ", "said", "LF",
      "[", "bob", " ", "]", "(", "M@", "x", ")", " ", "Shared">>
TextNone == <<"said", " ", "[", "Bob", "]", "(", "m@", "x", ")", "CR", "LF", "contributed">>

ContentResponses ==
    {[kind |-> "error"]} \cup {[kind |-> "ok", text |-> t] : t \in {TextTwo, TextNone}}

----------------------------------------------------------------------------
(* fetch_all_bullhorn_topics *)

\* a variant of AppendTopics without the test of topic_id
RECURSIVE AppendTopics_KeepAll(_, _)
AppendTopics_KeepAll(acc, topics) ==
    IF topics = <<>> THEN acc
    ELSE LET topic == Head(topics)
             entry == [id |-> topic.id, title |-> StripLR(topic.title),
                       views |-> topic.views, like_count |-> topic.like_count]
         IN  AppendTopics_KeepAll([ids |-> Append(acc.ids, topic.id),
                                   views |-> Append(acc.views, entry)],
                                  Tail(topics))

\* the body of "for topic in topics": a topic whose id is falsy is skipped
RECURSIVE AppendTopics(_, _)
AppendTopics(acc, topics) ==
    IF topics = <<>> THEN acc
    ELSE LET topic == Head(topics)
             entry == [id |-> topic.id, title |-> StripLR(topic.title),
                       views |-> topic.views, like_count |-> topic.like_count]
         IN  AppendTopics(IF topic.id # 0
                          THEN [ids |-> Append(acc.ids, topic.id),
                                views |-> Append(acc.views, entry)]
                          ELSE acc,
                          Tail(topics))

\* one turn of "while True": the request of the page and what follows from the answer.
\* ret is where the caller continues when the function returns.
FetchPage(Pages, ret) ==
    /\ pc = "list"
    /\ \E resp \in PageResponses(Pages, page) :
          /\ requested' = Append(requested, page)
          /\ served' = Append(served, resp)
          /\ CASE resp.kind = "error" ->
                    \* except requests.RequestException: break
                    /\ pc' = ret
                    /\ UNCHANGED <<page, post_ids, views_per_edition>>
               [] resp.kind = "malformed" ->
                    \* response.json() or .get() raises outside the try block
                    /\ pc' = "crashed"
                    /\ UNCHANGED <<page, post_ids, views_per_edition>>
               [] OTHER ->
                    IF resp.topics = <<>>
                    THEN /\ pc' = ret
                         /\ UNCHANGED <<page, post_ids, views_per_edition>>
                    ELSE LET acc == AppendTopics([ids |-> post_ids,
                                                  views |-> views_per_edition],
                                                 resp.topics)
                         IN  /\ post_ids' = acc.ids
                             /\ views_per_edition' = acc.views
                             /\ page' = page + 1
                             /\ pc' = "list"
    /\ UNCHANGED <<idx, fetched, filtered_data, user_count_data, contributions_data,
                   files, attempted, failed, markdown_text, matches>>

----------------------------------------------------------------------------
(* fetch_raw_markdown and main *)

\* response.text, or "" when the request raised
fetch_raw_markdown(resp) == IF resp.kind = "ok" THEN resp.text ELSE <<>>

\* Step 2: save views_per_edition
SaveViews ==
    /\ pc = "save_views"
    /\ save_to_csv(ViewsFile, views_per_edition, ViewsFields, "fetch")
    /\ UNCHANGED <<page, requested, post_ids, views_per_edition, served, idx, fetched,
                   filtered_data, user_count_data, contributions_data,
                   markdown_text, matches>>

\* Step 3, one turn of "for pid in post_ids"
FetchContent ==
    /\ pc = "fetch"
    /\ idx <= Len(post_ids)
    /\ \E resp \in ContentResponses :
          LET pid == post_ids[idx]
              raw_md == fetch_raw_markdown(resp)
          IN  /\ fetched' = Append(fetched, pid)
              /\ filtered_data' = filtered_data \o extract_user_and_link(pid, raw_md)
    /\ idx' = idx + 1
    /\ UNCHANGED <<pc, page, requested, post_ids, views_per_edition, served,
                   user_count_data, contributions_data, files, attempted, failed,
                   markdown_text, matches>>

\* Step 3, after the loop: id_to_title, enriched_data and their export
SaveFiltered ==
    /\ pc = "fetch"
    /\ idx > Len(post_ids)
    /\ save_to_csv(LinesFile,
                   enriched_data(filtered_data, id_to_title(views_per_edition)),
                   LinesFields, "save_counts")
    /\ UNCHANGED <<page, requested, post_ids, views_per_edition, served, idx, fetched,
                   filtered_data, user_count_data, contributions_data,
                   markdown_text, matches>>

\* Step 4: user_map, user_count_data and their export
SaveUserCount ==
    /\ pc = "save_counts"
    /\ user_count_data' = UserCountRows(count_users_per_post(filtered_data),
                                        id_to_title(views_per_edition))
    /\ save_to_csv(CountsFile, user_count_data', CountsFields, "save_totals")
    /\ UNCHANGED <<page, requested, post_ids, views_per_edition, served, idx, fetched,
                   filtered_data, contributions_data, markdown_text, matches>>

\* Step 5: user_contributions, contributions_data and their export
SaveTotals ==
    /\ pc = "save_totals"
    /\ contributions_data' = ContributionRows(count_contributions_per_user(filtered_data))
    /\ save_to_csv(TotalsFile, contributions_data', TotalsFields, "done")
    /\ UNCHANGED <<page, requested, post_ids, views_per_edition, served, idx, fetched,
                   filtered_data, user_count_data, markdown_text, matches>>

InitMain ==
    /\ pc = "list"
    /\ page = 0
    /\ requested = <<>>
    /\ post_ids = <<>>
    /\ views_per_edition = <<>>
    /\ served = <<>>
    /\ idx = 1
    /\ fetched = <<>>
    /\ filtered_data = <<>>
    /\ user_count_data = <<>>
    /\ contributions_data = <<>>
    /\ files = [f \in FileNames |-> OldContent]
    /\ attempted = <<>>
    /\ failed = {}
    /\ markdown_text = <<>>
    /\ matches = <<>>

ListTopics == FetchPage(MainPages, "save_views")

NextMain ==
    \/ ListTopics
    \/ SaveViews
    \/ FetchContent
    \/ SaveFiltered
    \/ SaveUserCount
    \/ SaveTotals

\* the whole pipeline, main()
Spec == InitMain /\ [][NextMain]_vars

\* fetch_all_bullhorn_topics alone, over every page of up to two topics
ListOnly == FetchPage(ListPages, "returned")

SpecList == InitMain /\ [][ListOnly]_vars

----------------------------------------------------------------------------
(* extract_user_and_link alone, over every text of up to MaxFrags fragments *)

Link == <<"[", "Bob", "]", "(", "m@", "x", ")">>
LinkNoPrefix == <<"[", "Bob", "]", "(", "h:", "x", ")">>
LinkNoClose == <<"[", "bob", "]", "(", "M@", "x">>
LinkEmptyUri == <<"[", "Al", "]", "(", "m@", ")">>

SaidLink == <<"said", " ", "[", "Al", "]", "(", "m@", "x", ")">>

Fragments ==
    {Link, LinkNoPrefix, LinkNoClose, LinkEmptyUri, SaidLink,
     <<"Shared">>, <<"LF">>, <<"CR">>, <<")">>, <<"[">>}

Texts == {Concat(fs) : fs \in UNION {[1..n -> Fragments] : n \in 0..MaxFrags}}

InitExtract ==
    /\ pc = "extract"
    /\ markdown_text \in Texts
    /\ post_ids = <<1>>
    /\ matches = <<>>
    /\ page = 0
    /\ requested = <<>>
    /\ views_per_edition = <<>>
    /\ served = <<>>
    /\ idx = 1
    /\ fetched = <<>>
    /\ filtered_data = <<>>
    /\ user_count_data = <<>>
    /\ contributions_data = <<>>
    /\ files = [f \in FileNames |-> OldContent]
    /\ attempted = <<>>
    /\ failed = {}

Extract ==
    /\ pc = "extract"
    /\ matches' = extract_user_and_link(post_ids[1], markdown_text)
    /\ pc' = "extracted"
    /\ UNCHANGED <<page, requested, post_ids, views_per_edition, served, idx, fetched,
                   filtered_data, user_count_data, contributions_data, files,
                   attempted, failed, markdown_text>>

SpecExtract == InitExtract /\ [][Extract]_vars

----------------------------------------------------------------------------
(* Steps 4 and 5 of main alone, over every list of up to MaxRecords records *)

NamePool == {<<"Bob">>, <<"bob", " ">>, <<"bob">>, <<" ", "Bob">>, <<"Al">>}

RecordPool ==
    {[post_id |-> p, user |-> u, matrix_link |-> <<"m@", "x">>] :
        p \in {1, 2}, u \in NamePool}

RecordLists == UNION {[1..n -> RecordPool] : n \in 0..MaxRecords}

InitAgg ==
    /\ pc = "save_counts"
    /\ filtered_data \in RecordLists
    /\ post_ids = <<1>>
    /\ views_per_edition = <<[id |-> 1, title |-> <<"Ed1">>, views |-> 10, like_count |-> 2]>>
    /\ idx = 2
    /\ page = 1
    /\ requested = <<0, 1>>
    /\ served = <<[kind |-> "ok", topics |-> <<TopicA>>], [kind |-> "ok", topics |-> <<>>]>>
    /\ fetched = <<1>>
    /\ user_count_data = <<>>
    /\ contributions_data = <<>>
    /\ files = [f \in FileNames |-> OldContent]
    /\ attempted = <<ViewsFile, LinesFile>>
    /\ failed = {ViewsFile, LinesFile}
    /\ markdown_text = <<>>
    /\ matches = <<>>

NextAgg == SaveUserCount \/ SaveTotals

SpecAgg == InitAgg /\ [][NextAgg]_vars

----------------------------------------------------------------------------
(* Vocabulary of the properties *)

Max(S) == CHOOSE x \in S : \A y \in S : x >= y

Range(q) == {q[i] : i \in 1..Len(q)}

RECURSIVE SumSeq(_)
SumSeq(q) == IF q = <<>> THEN 0 ELSE Head(q) + SumSeq(Tail(q))

\* s without its leading and trailing whitespace
TrimOf(s) ==
    LET K == {i \in 1..Len(s) : s[i] \notin Whitespace}
    IN  IF K = {} THEN <<>> ELSE SubSeq(s, Min(K), Max(K))

\* the topics of the pages served so far, in page order then intra-page order
ServedTopics ==
    Concat([i \in 1..Len(served) |->
               IF served[i].kind = "ok" THEN served[i].topics ELSE <<>>])

UsableId(topic) == topic.id # 0

\* a page on which the listing stops and returns
StopPage(resp) == resp.kind = "error" \/ (resp.kind = "ok" /\ resp.topics = <<>>)

\* the data rows of a file: what follows its header row
DataRows(content) == IF content = <<>> THEN <<>> ELSE Tail(content)

\* the export of f was attempted and raised no IOError
Written(f) == f \in Range(attempted) /\ f \notin failed

ExportOrder == <<ViewsFile, LinesFile, CountsFile, TotalsFile>>

\* the rows main hands to the export of f, and its column header
ExportRows(f) ==
    CASE f = ViewsFile -> views_per_edition
      [] f = LinesFile -> enriched_data(filtered_data, id_to_title(views_per_edition))
      [] f = CountsFile -> user_count_data
      [] OTHER -> contributions_data

ExportFields(f) ==
    CASE f = ViewsFile -> ViewsFields
      [] f = LinesFile -> LinesFields
      [] f = CountsFile -> CountsFields
      [] OTHER -> TotalsFields

\* f holds the header row and one row per entry, field by field
HoldsAll(f) ==
    LET rows == ExportRows(f)
        fields == ExportFields(f)
    IN  /\ Len(files[f]) = 1 + Len(rows)
        /\ files[f][1] = fields
        /\ \A i \in 1..Len(rows) : \A c \in 1..Len(fields) :
              files[f][i + 1][c] = rows[i][fields[c]]

----------------------------------------------------------------------------
(* C1: the listing *)

\* C1 as stated: when fetch_all_bullhorn_topics returns, the identifier list and
\* the metadata list hold every topic of the pages before the stopping page.
C1_ReturnsEveryTopic ==
    pc = "returned" =>
        /\ post_ids = [i \in 1..Len(ServedTopics) |-> ServedTopics[i].id]
        /\ Len(views_per_edition) = Len(ServedTopics)

\* C1, amended: pages 0, 1, 2, ... are requested once each, in order; every page
\* before the last is a parsed page with topics; the function returns exactly at
\* the first page that is empty or fails and raises exactly at the first page
\* whose body is malformed; and the two lists hold, in page order then intra-page
\* order and in parallel, the topics with a usable identifier of the pages before
\* that one, titles trimmed.
C1_Listing ==
    /\ requested = [i \in 1..Len(requested) |-> i - 1]
    /\ Len(served) = Len(requested)
    /\ \A i \in 1..(Len(served) - 1) : served[i].kind = "ok" /\ served[i].topics # <<>>
    /\ pc = "list" =>
          served = <<>> \/ (served[Len(served)].kind = "ok" /\ served[Len(served)].topics # <<>>)
    /\ pc = "returned" => served # <<>> /\ StopPage(served[Len(served)])
    /\ pc = "crashed" => served # <<>> /\ served[Len(served)].kind = "malformed"
    /\ LET usable == SelectSeq(ServedTopics, UsableId)
       IN  /\ post_ids = [i \in 1..Len(usable) |-> usable[i].id]
           /\ Len(views_per_edition) = Len(post_ids)
           /\ \A i \in 1..Len(usable) :
                 views_per_edition[i] =
                     [id |-> post_ids[i], title |-> TrimOf(usable[i].title),
                      views |-> usable[i].views, like_count |-> usable[i].like_count]

\* the listing has returned after two pages of topics, one of them without identifier
C1_Witness ==
    /\ pc = "returned"
    /\ Len(served) = 3
    /\ Len(post_ids) >= 2
    /\ Len(post_ids) < Len(ServedTopics)

----------------------------------------------------------------------------
(* C2: no fatal error path *)

\* C2: whatever the endpoints answer, the run of main never ends in an uncaught
\* exception.
C2_NeverCrashes == pc # "crashed"

----------------------------------------------------------------------------
(* C3: the extraction *)

\* the maximal runs <<a, b>> of the text without a line break: a run starts at the
\* start of the text or after a break and ends before the next break
Segments(t) ==
    {<<a, Min({b \in (a - 1)..Len(t) : b = Len(t) \/ IsBreak(t[b + 1])})>> :
        a \in {p \in 1..(Len(t) + 1) : p = 1 \/ IsBreak(t[p - 1])}}

\* t[i..k] within a..b is "[" name "](" matrix prefix, one lexeme or more, ")" with the
\* "]" at j
LinkAt(t, a, b, i, j, k) ==
    /\ a <= i /\ i < j /\ j + 3 < k /\ k <= b
    /\ t[k] = ")"
    /\ t[i] = "[" /\ t[j] = "]" /\ t[j + 1] = "(" /\ Lower(t[j + 2]) = "m@"
    /\ \A u \in (j + 3)..(k - 1) : t[u] # ")"

\* the link i, j, k is followed on the line by a keyword
Contribution(t, a, b, i, j, k) ==
    /\ LinkAt(t, a, b, i, j, k)
    /\ \E m \in (k + 1)..b : Lower(t[m]) \in keywords

HasContribution(t, seg) ==
    \E i \in seg[1]..seg[2] : t[i] = "[" /\
        \E j \in (i + 1)..seg[2] : t[j] = "]" /\
            \E k \in (j + 4)..seg[2] : Contribution(t, seg[1], seg[2], i, j, k)

ContributionLines(t) == {seg \in Segments(t) : HasContribution(t, seg)}

\* the record of a line: the leftmost "[" that opens a contribution, closed by the
\* nearest "]" that completes one
IsRecordOf(t, seg, rec) ==
    \E i \in seg[1]..seg[2] : t[i] = "[" /\
        \E j \in (i + 1)..seg[2] : t[j] = "]" /\
            \E k \in (j + 4)..seg[2] :
                /\ Contribution(t, seg[1], seg[2], i, j, k)
                /\ \A i2 \in seg[1]..(i - 1) : t[i2] = "[" =>
                      \A j2 \in (i2 + 1)..seg[2] : t[j2] = "]" =>
                          \A k2 \in (j2 + 4)..seg[2] :
                              ~Contribution(t, seg[1], seg[2], i2, j2, k2)
                /\ \A j2 \in (i + 1)..(j - 1) : t[j2] = "]" =>
                      \A k2 \in (j2 + 4)..seg[2] :
                          ~Contribution(t, seg[1], seg[2], i, j2, k2)
                /\ rec.user = SubSeq(t, i + 1, j - 1)
                /\ rec.matrix_link = SubSeq(t, j + 2, k - 1)

\* C3: the records are, in line order, one for each line that holds a matrix link
\* followed after its closing parenthesis by a keyword, and none for any other
\* line; so there are at most as many records as lines.
C3_OneRecordPerMatchingLine ==
    pc = "extracted" =>
        LET t == markdown_text
            L == ContributionLines(t)
        IN  /\ Len(matches) = Cardinality(L)
            /\ Len(matches) <= Cardinality({seg \in Segments(t) : seg[1] <= seg[2]})
            /\ \A seg \in L :
                  LET r == Cardinality({other \in L : other[1] <= seg[1]})
                  IN  /\ matches[r].post_id = post_ids[1]
                      /\ IsRecordOf(t, seg, matches[r])

\* a text of two lines with one record: the link of the other line has its keyword
\* before it
C3_Witness ==
    /\ pc = "extracted"
    /\ Len(matches) = 1
    /\ \E seg \in Segments(markdown_text) :
          /\ ~HasContribution(markdown_text, seg)
          /\ \E i, j, k \in seg[1]..seg[2] :
                /\ LinkAt(markdown_text, seg[1], seg[2], i, j, k)
                /\ \E m \in seg[1]..(i - 1) : Lower(markdown_text[m]) \in keywords

----------------------------------------------------------------------------
(* C4, C5: the aggregations *)

\* the exact display names among the records of topic pid
UsersOf(data, pid) == {data[i].user : i \in {n \in 1..Len(data) : data[n].post_id = pid}}

\* the position of the first record whose trimmed name is user
FirstSeen(data, user) == Min({i \in 1..Len(data) : TrimOf(data[i].user) = user})

\* C4: the per-topic rows are one per topic that has a record, and the count of a
\* topic is the number of distinct exact display names among its records, neither
\* trimmed nor case-folded.
C4_DistinctExactNames ==
    pc \in {"save_totals", "done"} =>
        /\ {user_count_data[r].id : r \in 1..Len(user_count_data)}
              = {filtered_data[i].post_id : i \in 1..Len(filtered_data)}
        /\ \A r, q \in 1..Len(user_count_data) :
              user_count_data[r].id = user_count_data[q].id => r = q
        /\ \A r \in 1..Len(user_count_data) :
              user_count_data[r].number_of_users
                  = Cardinality(UsersOf(filtered_data, user_count_data[r].id))

\* topic 1 has the records "Bob", "bob " and "Bob" again, and a count of 2
C4_Witness ==
    /\ pc = "done"
    /\ Len(filtered_data) = 3
    /\ \A i \in 1..3 : filtered_data[i].post_id = 1
    /\ filtered_data[1].user = <<"Bob">>
    /\ filtered_data[2].user = <<"bob", " ">>
    /\ filtered_data[3].user = <<"Bob">>
    /\ user_count_data[1].number_of_users = 2

\* C5: the per-user rows are one per distinct trimmed, case-preserved name; the
\* count of a name is the number of records whose trimmed name it is; the counts
\* never increase from one row to the next; and rows of equal count are in the
\* order their names were first met.
C5_TotalsPerTrimmedName ==
    pc = "done" =>
        LET rows == contributions_data
            n == Len(rows)
        IN  /\ {rows[r].user : r \in 1..n}
                  = {TrimOf(filtered_data[i].user) : i \in 1..Len(filtered_data)}
            /\ \A r, q \in 1..n : rows[r].user = rows[q].user => r = q
            /\ \A r \in 1..n :
                  rows[r].contributions
                      = Cardinality({i \in 1..Len(filtered_data) :
                                        TrimOf(filtered_data[i].user) = rows[r].user})
            /\ \A r \in 1..(n - 1) : rows[r].contributions >= rows[r + 1].contributions
            /\ \A r \in 1..(n - 1) :
                  rows[r].contributions = rows[r + 1].contributions =>
                      FirstSeen(filtered_data, rows[r].user)
                          < FirstSeen(filtered_data, rows[r + 1].user)

\* "bob " and "bob" are counted as one name with 2 records, after "Bob" with 1 was met
C5_Witness ==
    /\ pc = "done"
    /\ Len(filtered_data) = 3
    /\ filtered_data[1].user = <<"Bob">>
    /\ filtered_data[2].user = <<"bob", " ">>
    /\ filtered_data[3].user = <<"bob">>
    /\ contributions_data =
          <<[user |-> <<"bob">>, contributions |-> 2],
            [user |-> <<"Bob">>, contributions |-> 1]>>

----------------------------------------------------------------------------
(* C6, C7: the exports *)

\* C6: a write failure aborts nothing: the exports are attempted in the fixed
\* order, main continues with the next step after each of them whether or not it
\* failed, no attempt ends the run in an exception, the run is done exactly when
\* all four have been attempted, and every export that raised no IOError holds
\* its header and all of its rows.
C6_FailuresDoNotAbort ==
    /\ attempted = SubSeq(ExportOrder, 1, Len(attempted))
    /\ attempted # <<>> => pc # "crashed"
    /\ Len(attempted) = 1 => pc = "fetch"
    /\ Len(attempted) = 2 => pc = "save_counts"
    /\ Len(attempted) = 3 => pc = "save_totals"
    /\ pc = "done" <=> attempted = ExportOrder
    /\ pc = "fetch" => idx \in 1..(Len(post_ids) + 1)
    /\ failed \subseteq Range(attempted)
    /\ \A f \in FileNames : Written(f) => HoldsAll(f)

\* the first and the third export failed, the second and the fourth are complete
C6_Witness ==
    /\ pc = "done"
    /\ failed = {ViewsFile, CountsFile}
    /\ Len(files[LinesFile]) >= 3
    /\ Len(files[TotalsFile]) >= 3

\* C7: a file whose export was attempted holds the header and every row, or none
\* of the new content (it is untouched, or empty).
C7_AllOrNothing ==
    \A f \in Range(attempted) :
        \/ HoldsAll(f)
        \/ files[f] = OldContent
        \/ files[f] = <<>>

----------------------------------------------------------------------------
(* C8: the four outputs *)

\* C8 as stated, at the end of every run: the views file has one row per listed
\* topic, the filtered-lines file one row per record, the per-post file exactly
\* one row per topic identifier with a record, and the per-user counts sum to the
\* number of rows of the filtered-lines file.
C8_OutputsConsistentInEveryRun ==
    pc = "done" =>
        /\ [i \in 1..Len(DataRows(files[ViewsFile])) |-> DataRows(files[ViewsFile])[i][1]]
              = post_ids
        /\ Len(DataRows(files[LinesFile])) = Len(filtered_data)
        /\ {row[1] : row \in Range(DataRows(files[CountsFile]))}
              = {filtered_data[i].post_id : i \in 1..Len(filtered_data)}
        /\ Len(DataRows(files[CountsFile]))
              = Cardinality({filtered_data[i].post_id : i \in 1..Len(filtered_data)})
        /\ SumSeq([i \in 1..Len(DataRows(files[TotalsFile])) |->
                      DataRows(files[TotalsFile])[i][2]])
              = Len(DataRows(files[LinesFile]))

\* C8, amended: the same, of every output whose write raised no IOError: the
\* views file has one row per listed topic, in order; the filtered-lines file one
\* row per record, in order; the per-post file exactly one row per topic
\* identifier with a record; the per-user counts sum to the number of records,
\* which is the number of rows of the filtered-lines file when that was written.
C8_WrittenOutputsConsistent ==
    /\ Written(ViewsFile) =>
          [i \in 1..Len(DataRows(files[ViewsFile])) |-> DataRows(files[ViewsFile])[i][1]]
              = post_ids
    /\ Written(LinesFile) =>
          /\ Len(DataRows(files[LinesFile])) = Len(filtered_data)
          /\ \A i \in 1..Len(filtered_data) :
                /\ DataRows(files[LinesFile])[i][1] = filtered_data[i].post_id
                /\ DataRows(files[LinesFile])[i][3] = filtered_data[i].user
    /\ Written(CountsFile) =>
          /\ {row[1] : row \in Range(DataRows(files[CountsFile]))}
                = {filtered_data[i].post_id : i \in 1..Len(filtered_data)}
          /\ Len(DataRows(files[CountsFile]))
                = Cardinality({filtered_data[i].post_id : i \in 1..Len(filtered_data)})
    /\ Written(TotalsFile) =>
          SumSeq([i \in 1..Len(DataRows(files[TotalsFile])) |->
                     DataRows(files[TotalsFile])[i][2]])
              = Len(filtered_data)
    /\ Written(TotalsFile) /\ Written(LinesFile) =>
          SumSeq([i \in 1..Len(DataRows(files[TotalsFile])) |->
                     DataRows(files[TotalsFile])[i][2]])
              = Len(DataRows(files[LinesFile]))

\* two topics, one with two matching lines and one with none, and no write failure:
\* 2 view rows, 2 filtered lines, 1 per-post row
C8_Witness ==
    /\ pc = "done"
    /\ failed = {}
    /\ post_ids = <<2, 1>>
    /\ Len(DataRows(files[ViewsFile])) = 2
    /\ Len(DataRows(files[LinesFile])) = 2
    /\ Len(DataRows(files[CountsFile])) = 1
    /\ Len(DataRows(files[TotalsFile])) = 2

----------------------------------------------------------------------------
(* C9, C10: records and topics *)

ListedIds == {views_per_edition[j].id : j \in 1..Len(views_per_edition)}

\* the title of the last listed topic with identifier pid
ListedTitle(pid) ==
    views_per_edition[Max({j \in 1..Len(views_per_edition) :
                              views_per_edition[j].id = pid})].title

ProbeIds == {1, 2, 3}

\* C9: every record's topic identifier is that of a listed topic; the title
\* looked up for it, the title of its row in the filtered-lines file when that
\* was written, and the title of every per-post row are the title listed for
\* that identifier; and the title looked up for an identifier that is not
\* listed is the empty string.
C9_RecordsJoinTopics ==
    LET titles == id_to_title(views_per_edition)
        lines == DataRows(files[LinesFile])
    IN  /\ \A i \in 1..Len(filtered_data) :
              /\ filtered_data[i].post_id \in ListedIds
              /\ TitleOf(titles, filtered_data[i].post_id)
                    = ListedTitle(filtered_data[i].post_id)
              /\ Written(LinesFile) => lines[i][2] = ListedTitle(filtered_data[i].post_id)
        /\ \A r \in 1..Len(user_count_data) :
              /\ user_count_data[r].id \in ListedIds
              /\ user_count_data[r].title = ListedTitle(user_count_data[r].id)
        /\ \A pid \in ProbeIds \ ListedIds : TitleOf(titles, pid) = <<>>

\* the run is done with records of a topic listed twice under two titles, and an
\* identifier that is not listed
C9_Witness ==
    /\ pc = "done"
    /\ Written(LinesFile)
    /\ Len(filtered_data) >= 2
    /\ Len(user_count_data) >= 1
    /\ \E i, j \in 1..Len(views_per_edition) :
          /\ views_per_edition[i].id = views_per_edition[j].id
          /\ views_per_edition[i].title # views_per_edition[j].title
          /\ views_per_edition[i].id = filtered_data[1].post_id
    /\ ProbeIds \ ListedIds # {}

\* C10: no two listed topics have the same identifier, and no topic's content is
\* fetched twice.
C10_UniqueIdentifiers ==
    /\ \A i, j \in 1..Len(views_per_edition) :
          views_per_edition[i].id = views_per_edition[j].id => i = j
    /\ \A i, j \in 1..Len(fetched) : fetched[i] = fetched[j] => i = j

====
